---- MODULE Spec2Model ----
(***************************************************************************)
(* Mystery Maze: recursive-backtracking maze generation                    *)
(* (Mystery_Maze.__init__, Mystery_Maze.__visit) and the turn loop of the  *)
(* game (Game.start, Game.__game_loop, Game.__take_step,                   *)
(* Game.__display_finish) of src/mystery_maze.py.                          *)
(***************************************************************************)
EXTENDS Integers, Sequences, FiniteSets, TLC

\* ------------------------------------------------------------------ bounds
\* Largest width / height argument handed to Game.start in the full game.
MaxW == 5
MaxH == 5
\* Largest width / height argument handed to the constructor when only the
\* construction of the maze is explored.
GenMaxW == 7
GenMaxH == 7
\* Largest number of game-loop iterations explored in one session.
MaxTurns == 7
\* The width and height arguments explored where the normalisation is
\* examined range over -MaxArg .. MaxArg.
MaxArg == 8

\* ------------------------------------------------------------------ Direction
NORTH == 1
SOUTH == 2
WEST == 3
EAST == 4
Directions == {NORTH, SOUTH, WEST, EAST}

\* `direction = False` of the game loop: the input was no arrow key.
NoDirection == 0

\* Input of getch(): the four arrow keys, any other key, or curses.ERR.
Keys == {"KEY_RIGHT", "KEY_LEFT", "KEY_UP", "KEY_DOWN", "OTHER", "ERR"}

\* Placeholder for a coordinate attribute that is not assigned yet.
NoCoords == <<-1, -1>>

\* Placeholder for the constructor arguments when none are recorded.
NoArgs == <<0, 0>>

\* Placeholder for the locals of a loop iteration when none has run.
NoStep == [direction |-> NoDirection, from |-> NoCoords,
           was_success |-> FALSE, new_position |-> NoCoords]

VARIABLES
    pc,         \* where the program is: NotStarted, Generating, Intro,
                \* Playing, Won, KeyError
    width,      \* Mystery_Maze.width
    height,     \* Mystery_Maze.height
    grid,       \* Mystery_Maze.grid: coords -> tile (path, revealed, visited)
    stack,      \* coords of the active __visit frames, innermost last
    entry,      \* coords of Mystery_Maze.entry
    exit,       \* coords of Mystery_Maze.exit
    player_position, \* Game.player_position
    intro,      \* the intro argument of the running Game.start call
    intro_line, \* number of intro lines already displayed and acknowledged
    turns,      \* game-loop iterations run in this session
    step,       \* locals of the last game-loop iteration
    looked,     \* coords used as grid keys by the last operation
    choices,    \* indices random.choice has returned to the running
                \* constructor call, oldest first
    args,       \* the width and height arguments of the constructor call,
                \* recorded where the normalisation is examined
    occupied    \* the values Game.player_position has held in this game

vars == <<pc, width, height, grid, stack, entry, exit, player_position,
          intro, intro_line, turns, step, looked, choices, args, occupied>>

\* ------------------------------------------------------------------ Maze_Tile
\* Maze_Tile.__init__: a shrouded, unvisited wall.
Maze_Tile == [path |-> FALSE, revealed |-> FALSE, visited |-> FALSE]

\* ------------------------------------------------------------------ Mystery_Maze
\* normalize that makes an even dimension odd by decrementing it.
normalize_round_down(n) ==
    IF n < 3 THEN 3
    ELSE IF n % 2 # 1 THEN n - 1
    ELSE n

\* The normalisation of one dimension at the top of Mystery_Maze.__init__.
normalize(n) ==
    IF n < 3 THEN 3
    ELSE IF n % 2 # 1 THEN n + 1
    ELSE n

\* new_grid that reuses the tiles of the previous maze without clearing
\* their path flag.
new_grid_keep_path(w, h) ==
    [c \in (0 .. w - 1) \X (0 .. h - 1) |->
        IF c \in DOMAIN grid THEN [Maze_Tile EXCEPT !.path = grid[c].path]
        ELSE Maze_Tile]

\* new_grid that reuses the tiles of the previous maze without clearing
\* their revealed flag.
new_grid_keep_revealed(w, h) ==
    [c \in (0 .. w - 1) \X (0 .. h - 1) |->
        IF c \in DOMAIN grid THEN [Maze_Tile EXCEPT !.revealed = grid[c].revealed]
        ELSE Maze_Tile]

\* The grid dictionary as built by the two nested range loops.
new_grid(w, h) == [c \in (0 .. w - 1) \X (0 .. h - 1) |-> Maze_Tile]

\* next_tile_coords one tile away, where the hallway tile is.
next_tile_coords_one_tile(c, d) ==
    CASE d = NORTH -> <<c[1], c[2] - 1>>
      [] d = SOUTH -> <<c[1], c[2] + 1>>
      [] d = WEST  -> <<c[1] - 1, c[2]>>
      [] d = EAST  -> <<c[1] + 1, c[2]>>

\* next_tile_coords of __visit for a direction.
next_tile_coords(c, d) ==
    CASE d = NORTH -> <<c[1], c[2] - 2>>
      [] d = SOUTH -> <<c[1], c[2] + 2>>
      [] d = WEST  -> <<c[1] - 2, c[2]>>
      [] d = EAST  -> <<c[1] + 2, c[2]>>

\* hallway_coords with the NORTH offset taken in the wrong direction.
hallway_coords_north_flipped(c, d) ==
    CASE d = NORTH -> <<c[1], c[2] + 1>>
      [] d = SOUTH -> <<c[1], c[2] + 1>>
      [] d = WEST  -> <<c[1] - 1, c[2]>>
      [] d = EAST  -> <<c[1] + 1, c[2]>>

\* hallway_coords of __visit for a direction.
hallway_coords(c, d) ==
    CASE d = NORTH -> <<c[1], c[2] - 1>>
      [] d = SOUTH -> <<c[1], c[2] + 1>>
      [] d = WEST  -> <<c[1] - 1, c[2]>>
      [] d = EAST  -> <<c[1] + 1, c[2]>>

\* has_neighbor with the WEST test letting through the first lattice column.
has_neighbor_west_loose(w, h, c, d) ==
    CASE d = NORTH -> c[2] > 1
      [] d = SOUTH -> c[2] < h - 2
      [] d = WEST  -> c[1] > 0
      [] d = EAST  -> c[1] < w - 2

\* has_neighbor with the NORTH test stopping one lattice row early.
has_neighbor_north_short(w, h, c, d) ==
    CASE d = NORTH -> c[2] > 3
      [] d = SOUTH -> c[2] < h - 2
      [] d = WEST  -> c[1] > 1
      [] d = EAST  -> c[1] < w - 2

\* has_neighbor with the SOUTH test letting through the last lattice row.
has_neighbor_south_loose(w, h, c, d) ==
    CASE d = NORTH -> c[2] > 1
      [] d = SOUTH -> c[2] < h - 1
      [] d = WEST  -> c[1] > 1
      [] d = EAST  -> c[1] < w - 2

\* has_neighbor with the EAST test stopping one lattice column early.
has_neighbor_east_short(w, h, c, d) ==
    CASE d = NORTH -> c[2] > 1
      [] d = SOUTH -> c[2] < h - 2
      [] d = WEST  -> c[1] > 1
      [] d = EAST  -> c[1] < w - 4

\* The left conjunct of each of the four neighbour tests of __visit.
has_neighbor(w, h, c, d) ==
    CASE d = NORTH -> c[2] > 1
      [] d = SOUTH -> c[2] < h - 2
      [] d = WEST  -> c[1] > 1
      [] d = EAST  -> c[1] < w - 2

\* The grid keys the four neighbour tests read (`and` short-circuits).
neighbor_lookups(w, h, c) ==
    {next_tile_coords(c, d) : d \in {e \in Directions : has_neighbor(w, h, c, e)}}

\* unvisited_neighbors testing the visited flag of the hallway tile, which
\* is never set, instead of the neighbour's.
unvisited_neighbors_hallway_test(g, w, h, c) ==
    LET Eligible(d) == has_neighbor(w, h, c, d) /\ ~g[hallway_coords(c, d)].visited
    IN  SelectSeq(<<NORTH, SOUTH, WEST, EAST>>, Eligible)

\* unvisited_neighbors of __visit: a list, in the order N, S, W, E.
unvisited_neighbors(g, w, h, c) ==
    LET Eligible(d) == has_neighbor(w, h, c, d) /\ ~g[next_tile_coords(c, d)].visited
    IN  SelectSeq(<<NORTH, SOUTH, WEST, EAST>>, Eligible)

\* visit_enter without the assignment current_tile.visited = True.
visit_enter_no_mark(g, c) == [g EXCEPT ![c].path = TRUE]

\* The head of __visit: carve the cell and mark it visited.
visit_enter(g, c) == [g EXCEPT ![c].path = TRUE, ![c].visited = TRUE]

\* carve_hallway that leaves the hallway tile a wall.
carve_hallway_skipped(g, c) == g

\* Carving of the hallway tile before the recursive call.
carve_hallway(g, c) == [g EXCEPT ![c].path = TRUE]

\* exit_coords one column to the right, above a hallway tile.
exit_coords_even_column == <<2, 0>>

\* exit_coords with x and y swapped.
exit_coords_swapped == <<0, 1>>

exit_coords == <<1, 0>>
entry_coords(w, h) == <<w - 2, h - 1>>

\* add_entry_exit without the assignment entry.path = True.
add_entry_exit_entry_wall(g, w, h) ==
    [g EXCEPT ![exit_coords].path = TRUE,
              ![exit_coords].revealed = TRUE,
              ![entry_coords(w, h)].revealed = TRUE]

\* add_entry_exit without the assignment exit.revealed = True.
add_entry_exit_exit_shrouded(g, w, h) ==
    [g EXCEPT ![exit_coords].path = TRUE,
              ![entry_coords(w, h)].path = TRUE,
              ![entry_coords(w, h)].revealed = TRUE]

\* The tail of Mystery_Maze.__init__: entry and exit forced to revealed path.
add_entry_exit(g, w, h) ==
    [g EXCEPT ![exit_coords].path = TRUE,
              ![exit_coords].revealed = TRUE,
              ![entry_coords(w, h)].path = TRUE,
              ![entry_coords(w, h)].revealed = TRUE]

\* ------------------------------------------------------------------ Init
Init ==
    /\ pc = "NotStarted"
    /\ width = 0
    /\ height = 0
    /\ grid = <<>>
    /\ stack = <<>>
    /\ entry = NoCoords
    /\ exit = NoCoords
    /\ player_position = NoCoords
    /\ intro = TRUE
    /\ intro_line = 0
    /\ turns = 0
    /\ step = NoStep
    /\ looked = {}
    /\ choices = <<>>
    /\ args = NoArgs
    /\ occupied = {}

\* A grid lookup with a key the dictionary does not hold raises KeyError,
\* which nothing catches.
raise_KeyError(keys) ==
    /\ pc' = "KeyError"
    /\ looked' = keys
    /\ UNCHANGED <<width, height, grid, stack, entry, exit, player_position,
                   intro, intro_line, turns, choices, occupied>>

\* Game.start up to the call of the constructor, and the constructor up to
\* and including the head of the top-level __visit((1,1)).
start(w_arg, h_arg, intro_arg) ==
    LET w == normalize(w_arg)
        h == normalize(h_arg)
        g == new_grid(w, h)
    IN  IF <<1, 1>> \notin DOMAIN g
        THEN raise_KeyError({<<1, 1>>}) /\ UNCHANGED step
        ELSE /\ pc' = "Generating"
             /\ width' = w
             /\ height' = h
             /\ grid' = visit_enter(g, <<1, 1>>)
             /\ stack' = << <<1, 1>> >>
             /\ intro' = intro_arg
             /\ intro_line' = 0
             /\ turns' = 0
             /\ step' = NoStep
             /\ looked' = {<<1, 1>>}
             /\ choices' = <<>>
             /\ occupied' = {}
             /\ UNCHANGED <<entry, exit, player_position>>

\* main: game.start() of a new process.
main(w_arg, h_arg) ==
    /\ pc = "NotStarted"
    /\ start(w_arg, h_arg, TRUE)
    /\ UNCHANGED args

\* One iteration of the loop of the innermost __visit frame that finds an
\* unvisited neighbour: choose one, carve the hallway, call __visit on it.
visit_recurse ==
    /\ pc = "Generating"
    /\ stack # <<>>
    /\ LET c == stack[Len(stack)]
           reads == neighbor_lookups(width, height, c)
       IN  IF ~(reads \subseteq DOMAIN grid)
           THEN raise_KeyError(reads) /\ UNCHANGED <<step, args>>
           ELSE LET unvisited == unvisited_neighbors(grid, width, height, c)
                IN  /\ unvisited # <<>>
                    /\ \E i \in 1 .. Len(unvisited) :
                         LET d == unvisited[i]
                             hall == hallway_coords(c, d)
                             next == next_tile_coords(c, d)
                         IN  IF ~({hall, next} \subseteq DOMAIN grid)
                             THEN raise_KeyError(reads \cup {hall, next}) /\ UNCHANGED <<step, args>>
                             ELSE /\ grid' = visit_enter(carve_hallway(grid, hall), next)
                                  /\ stack' = Append(stack, next)
                                  /\ looked' = reads \cup {hall, next}
                                  /\ choices' = Append(choices, i)
                                  /\ UNCHANGED <<pc, width, height, entry, exit,
                                                 player_position, intro, intro_line,
                                                 turns, step, args, occupied>>

\* One iteration of the loop of the innermost __visit frame that finds no
\* unvisited neighbour: the frame returns to its caller.
visit_return ==
    /\ pc = "Generating"
    /\ stack # <<>>
    /\ LET c == stack[Len(stack)]
           reads == neighbor_lookups(width, height, c)
       IN  IF ~(reads \subseteq DOMAIN grid)
           THEN raise_KeyError(reads) /\ UNCHANGED <<step, args>>
           ELSE /\ unvisited_neighbors(grid, width, height, c) = <<>>
                /\ stack' = SubSeq(stack, 1, Len(stack) - 1)
                /\ looked' = reads
                /\ UNCHANGED <<pc, width, height, grid, entry, exit,
                               player_position, intro, intro_line, turns, step,
                               choices, args, occupied>>

\* After the top-level __visit has returned: the rest of the constructor
\* (entry and exit) and the rest of Game.start up to the intro or the loop.
maze_built ==
    /\ pc = "Generating"
    /\ stack = <<>>
    /\ LET keys == {exit_coords, entry_coords(width, height)}
       IN  IF ~(keys \subseteq DOMAIN grid)
           THEN raise_KeyError(keys) /\ UNCHANGED <<step, args>>
           ELSE /\ grid' = add_entry_exit(grid, width, height)
                /\ exit' = exit_coords
                /\ entry' = entry_coords(width, height)
                /\ player_position' = entry_coords(width, height)
                /\ pc' = IF intro THEN "Intro" ELSE "Playing"
                /\ looked' = keys
                /\ choices' = <<>>
                /\ occupied' = {entry_coords(width, height)}
                /\ UNCHANGED <<width, height, stack, intro, intro_line, turns, step,
                               args>>

IntroLines == 3

\* __play_intro: one line displayed and acknowledged by a key press.
play_intro ==
    /\ pc = "Intro"
    /\ intro_line' = intro_line + 1
    /\ pc' = IF intro_line + 1 = IntroLines THEN "Playing" ELSE "Intro"
    /\ looked' = {}
    /\ UNCHANGED <<width, height, grid, stack, entry, exit, player_position,
                   intro, turns, step, choices, args, occupied>>

\* ------------------------------------------------------------------ Game
\* key_direction without the final else: the local keeps the direction of
\* the iteration before.
key_direction_stale(char) ==
    CASE char = "KEY_RIGHT" -> EAST
      [] char = "KEY_LEFT"  -> WEST
      [] char = "KEY_UP"    -> NORTH
      [] char = "KEY_DOWN"  -> SOUTH
      [] OTHER              -> step.direction

\* The key-to-direction chain at the top of a game-loop iteration.
key_direction(char) ==
    CASE char = "KEY_RIGHT" -> EAST
      [] char = "KEY_LEFT"  -> WEST
      [] char = "KEY_UP"    -> NORTH
      [] char = "KEY_DOWN"  -> SOUTH
      [] OTHER              -> NoDirection

\* dest_coords with the WEST offset of __visit, two tiles instead of one.
dest_coords_west_two(p, d) ==
    CASE d = NORTH -> <<p[1], p[2] - 1>>
      [] d = SOUTH -> <<p[1], p[2] + 1>>
      [] d = WEST  -> <<p[1] - 2, p[2]>>
      [] d = EAST  -> <<p[1] + 1, p[2]>>

\* dest_coords with the NORTH offset of __visit, two tiles instead of one.
dest_coords_north_two(p, d) ==
    CASE d = NORTH -> <<p[1], p[2] - 2>>
      [] d = SOUTH -> <<p[1], p[2] + 1>>
      [] d = WEST  -> <<p[1] - 1, p[2]>>
      [] d = EAST  -> <<p[1] + 1, p[2]>>

\* dest_coords of __take_step for a direction.
dest_coords(p, d) ==
    CASE d = NORTH -> <<p[1], p[2] - 1>>
      [] d = SOUTH -> <<p[1], p[2] + 1>>
      [] d = WEST  -> <<p[1] - 1, p[2]>>
      [] d = EAST  -> <<p[1] + 1, p[2]>>

\* outside_maze with > for >= in the test of dest_y against the height.
outside_maze_off_by_one(w, h, dest) ==
    dest[1] < 0 \/ dest[1] >= w \/ dest[2] < 0 \/ dest[2] > h

\* The bounds test of __take_step.
outside_maze(w, h, dest) ==
    dest[1] < 0 \/ dest[1] >= w \/ dest[2] < 0 \/ dest[2] >= h

\* reveal that also carves the tile.
reveal_and_carve(g, c) == [g EXCEPT ![c].revealed = TRUE, ![c].path = TRUE]

\* reveal that flips the flag instead of setting it.
reveal_toggle(g, c) == [g EXCEPT ![c].revealed = ~g[c].revealed]

\* reveal that also sets the visited flag of the tile stepped on.
reveal_and_visit(g, c) == [g EXCEPT ![c].revealed = TRUE, ![c].visited = TRUE]

\* The tile write of __take_step.
reveal(g, c) == [g EXCEPT ![c].revealed = TRUE]

\* step_success that fails on a tile that was revealed before the step.
step_success_fresh_only(g, dest) == g[dest].path /\ ~g[dest].revealed

\* step_success that also lets the player onto a tile already revealed.
step_success_known_tile(g, dest) == g[dest].path \/ g[dest].revealed

\* is_success of __take_step for a destination inside the maze.
step_success(g, dest) == g[dest].path

\* step_position with the two outcomes exchanged.
step_position_swapped(is_success, p, dest) == IF is_success THEN p ELSE dest

\* step_position that moves the player whatever the outcome.
step_position_always(is_success, p, dest) == dest

\* next_position of __take_step.
step_position(is_success, p, dest) == IF is_success THEN dest ELSE p

\* Game.__take_step: the grid after the step, the returned pair, the grid
\* keys it used and whether a lookup raised KeyError.
take_step(g, w, h, p, d) ==
    LET dest == dest_coords(p, d)
    IN  IF outside_maze(w, h, dest)
        THEN [grid |-> g, is_success |-> FALSE,
              next_position |-> step_position(FALSE, p, dest),
              looked |-> {}, raised |-> FALSE]
        ELSE IF dest \notin DOMAIN g
        THEN [grid |-> g, is_success |-> FALSE, next_position |-> p,
              looked |-> {dest}, raised |-> TRUE]
        ELSE [grid |-> reveal(g, dest), is_success |-> step_success(g, dest),
              next_position |-> step_position(step_success(g, dest), p, dest),
              looked |-> {dest}, raised |-> FALSE]

\* did_win comparing with the exit coordinates in the order (y, x).
did_win_transposed(p, e) == p = <<e[2], e[1]>>

\* did_win comparing the x coordinates only.
did_win_x_only(p, e) == p[1] = e[1]

\* The win condition of the game loop.
did_win(p, e) == p = e

\* in_game_loop without the break after a win: the loop goes on.
in_game_loop_no_break == pc \in {"Playing", "Won"}

\* The while loop of __game_loop is running: entered and not left by break.
in_game_loop == pc = "Playing"

\* One iteration of the while loop of __game_loop with input char.
game_loop(char) ==
    /\ in_game_loop
    /\ turns < MaxTurns
    /\ LET direction == key_direction(char)
       IN  IF direction # NoDirection
           THEN LET r == take_step(grid, width, height, player_position, direction)
                IN  IF r.raised
                    THEN /\ raise_KeyError(r.looked)
                         /\ step' = [step EXCEPT !.direction = direction,
                                                 !.from = player_position]
                         /\ UNCHANGED args
                    ELSE /\ grid' = r.grid
                         /\ player_position' = r.next_position
                         /\ step' = [direction |-> direction,
                                     from |-> player_position,
                                     was_success |-> r.is_success,
                                     new_position |-> r.next_position]
                         /\ looked' = r.looked
                         /\ pc' = IF did_win(r.next_position, exit)
                                  THEN "Won" ELSE "Playing"
                         /\ turns' = turns + 1
                         /\ occupied' = occupied \cup {r.next_position}
                         /\ UNCHANGED <<width, height, stack, entry, exit,
                                        intro, intro_line, choices, args>>
           ELSE /\ step' = [step EXCEPT !.direction = NoDirection,
                                        !.from = player_position]
                /\ looked' = {}
                /\ pc' = IF did_win(player_position, exit)
                         THEN "Won" ELSE "Playing"
                /\ turns' = turns + 1
                /\ UNCHANGED <<width, height, grid, stack, entry, exit,
                               player_position, intro, intro_line, choices, args,
                               occupied>>

\* __display_finish: any key starts a new game without the intro.
display_finish(w_arg, h_arg) ==
    /\ pc = "Won"
    /\ start(w_arg, h_arg, FALSE)
    /\ UNCHANGED args

\* ------------------------------------------------------------------ specifications
\* The whole program: sessions of generation, intro, play and restart.
Next ==
    \/ \E w \in 0 .. MaxW, h \in 0 .. MaxH : main(w, h)
    \/ visit_recurse
    \/ visit_return
    \/ maze_built
    \/ play_intro
    \/ \E char \in Keys : game_loop(char)
    \/ \E w \in 0 .. MaxW, h \in 0 .. MaxH : display_finish(w, h)

Spec == Init /\ [][Next]_vars

\* The construction of one maze alone, for larger widths and heights.
GenNext ==
    \/ \E w \in 0 .. GenMaxW, h \in 0 .. GenMaxH : main(w, h)
    \/ visit_recurse
    \/ visit_return
    \/ maze_built

GenSpec == Init /\ [][GenNext]_vars

\* The construction of one maze as the interpreter runs it: a call that
\* can take its next step takes it.
GenLiveSpec == Init /\ [][GenNext]_vars /\ WF_vars(GenNext)

\* Mystery_Maze(width, height) called with arbitrary integers: the call as
\* in main, with its arguments recorded.
construct(w_arg, h_arg) ==
    /\ pc = "NotStarted"
    /\ start(w_arg, h_arg, TRUE)
    /\ args' = <<w_arg, h_arg>>

\* The first step of the constructor alone, for arguments of either sign.
NormNext == \E w \in -MaxArg .. MaxArg, h \in -MaxArg .. MaxArg : construct(w, h)

NormSpec == Init /\ [][NormNext]_vars

\* ------------------------------------------------------------------ properties
\* The interior cells with both coordinates odd.
Lattice == {c \in DOMAIN grid : /\ c[1] \in 1 .. width - 2
                                /\ c[2] \in 1 .. height - 2
                                /\ c[1] % 2 = 1
                                /\ c[2] % 2 = 1}

\* The interior tiles lying between two lattice cells next to each other.
HallwayTiles == {c \in DOMAIN grid : /\ c[1] \in 1 .. width - 2
                                     /\ c[2] \in 1 .. height - 2
                                     /\ (c[1] + c[2]) % 2 = 1}

PathTiles == {c \in DOMAIN grid : grid[c].path}
VisitedTiles == {c \in DOMAIN grid : grid[c].visited}
RevealedTiles == {c \in DOMAIN grid : grid[c].revealed}

\* Tiles one step apart, north, south, west or east.
Orthogonal(a, b) ==
    \/ a[1] = b[1] /\ (a[2] = b[2] + 1 \/ b[2] = a[2] + 1)
    \/ a[2] = b[2] /\ (a[1] = b[1] + 1 \/ b[1] = a[1] + 1)

\* Two lattice cells joined by a carved hallway tile between them.
Joined(a, b) ==
    \E m \in HallwayTiles \cap PathTiles : Orthogonal(a, m) /\ Orthogonal(m, b) /\ a # b

\* The lattice cells that carved hallways connect to the cells of S.
RECURSIVE JoinedTo(_)
JoinedTo(S) ==
    LET more == S \cup {b \in Lattice : \E a \in S : Joined(a, b)}
    IN  IF more = S THEN S ELSE JoinedTo(more)

\* The top-level __visit has returned and entry and exit are not set yet.
GenerationFinished == pc = "Generating" /\ stack = <<>>

\* The constructor has returned: a session holds a complete maze.
Constructed == pc \in {"Intro", "Playing", "Won"}

\* C1: when generation finishes, before entry and exit are punctured, the
\* carved tiles form a tree over the interior odd lattice: every path tile
\* is a lattice cell or a hallway tile between two cells, every cell is
\* connected to (1,1) through carved hallways, and the number of carved
\* hallways is the number of lattice cells minus one.
C1_SpanningTree ==
    GenerationFinished =>
        /\ PathTiles \subseteq Lattice \cup HallwayTiles
        /\ JoinedTo({<<1, 1>>}) = Lattice
        /\ Cardinality(PathTiles \cap HallwayTiles) = Cardinality(Lattice) - 1

\* A finished generation over a lattice wide and high enough to hold a cycle.
C1_Witness ==
    GenerationFinished /\ width = 7 /\ height = 7 /\ Cardinality(Lattice) = 9

\* C2: when the top-level visit((1,1)) returns, the visited tiles are
\* exactly the interior odd lattice, and each of them is a path tile.
C2_VisitedIsLattice ==
    GenerationFinished =>
        /\ VisitedTiles = Lattice
        /\ Lattice \subseteq PathTiles

\* A finished generation of a maze that is not square, with all six cells
\* of its lattice visited.
C2_Witness ==
    GenerationFinished /\ width = 7 /\ height = 5 /\ Cardinality(VisitedTiles) = 6

\* The number of simple routes of orthogonally adjacent path tiles from a
\* to b that avoid the tiles of seen.
RECURSIVE NumRoutes(_, _, _)
RECURSIVE SumRoutes(_, _, _)
NumRoutes(a, b, seen) ==
    IF a = b THEN 1
    ELSE SumRoutes({n \in PathTiles \ seen : Orthogonal(a, n)}, b, seen)
SumRoutes(from, b, seen) ==
    IF from = {} THEN 0
    ELSE LET n == CHOOSE m \in from : TRUE
         IN  NumRoutes(n, b, seen \cup {n}) + SumRoutes(from \ {n}, b, seen)

\* The number of simple routes from a to b, both of them path tiles.
Routes(a, b) ==
    IF a \in PathTiles /\ b \in PathTiles THEN NumRoutes(a, b, {a}) ELSE 0

\* The pairs of orthogonally adjacent path tiles, each counted once.
PathEdges ==
    {e \in PathTiles \X PathTiles :
        Orthogonal(e[1], e[2]) /\ (e[1][1] < e[2][1] \/ e[1][2] < e[2][2])}

\* C3: in a fully constructed maze exactly one simple route of orthogonally
\* adjacent path tiles leads from the entry to the exit, and from the entry
\* to every path tile; the path tiles have one adjacency fewer than there
\* are tiles, so they form a tree and any two of them are joined by
\* exactly one route.
C3_UniqueRoute ==
    Constructed =>
        /\ Routes(entry, exit) = 1
        /\ \A t \in PathTiles : Routes(entry, t) = 1
        /\ Cardinality(PathEdges) = Cardinality(PathTiles) - 1

\* A constructed maze whose lattice could hold a cycle, with entry and exit
\* set at opposite corners.
C3_Witness ==
    /\ Constructed
    /\ width = 7 /\ height = 7
    /\ entry = <<5, 6>> /\ exit = <<1, 0>>
    /\ grid[entry].path /\ grid[exit].path

\* The tiles of the outer rows and columns.
Boundary == {c \in DOMAIN grid : \/ c[1] = 0 \/ c[1] = width - 1
                                 \/ c[2] = 0 \/ c[2] = height - 1}

\* C4: after construction and in every later state of the session, every
\* boundary tile other than the entry (width-2, height-1) and the exit
\* (1, 0) is a wall.
C4_BoundaryWalls ==
    Constructed =>
        \A c \in Boundary \ {<<width - 2, height - 1>>, <<1, 0>>} : ~grid[c].path

\* A session in which the player has bumped into a boundary wall.
C4_Witness ==
    /\ pc = "Playing"
    /\ width = 5 /\ height = 5
    /\ \E c \in Boundary \ {<<width - 2, height - 1>>, <<1, 0>>} : grid[c].revealed

SameSession == ~(pc \in {"NotStarted", "Won"} /\ pc' = "Generating")

\* C6: within a session a tile that is revealed stays revealed, whatever
\* the steps and inputs.
C6_RevealMonotonic ==
    [][SameSession =>
          \A c \in DOMAIN grid : grid[c].revealed => grid'[c].revealed]_vars

\* A session in which tiles revealed by earlier steps are still revealed
\* after a later step onto a tile that was revealed before.
C6_Witness ==
    /\ pc = "Playing"
    /\ turns >= 3
    /\ step.direction # NoDirection
    /\ step.was_success
    /\ player_position = entry
    /\ Cardinality(RevealedTiles) >= 5

\* C7: the session is Won if and only if the player position is the exit:
\* the loop ends at no other position, and no loop iteration leaves the
\* player on the exit with the session still being played.
C7_WonIffAtExit ==
    Constructed => (pc = "Won" <=> player_position = exit)

\* The player stood next to the exit with the game going on and won by
\* the step onto the exit.
C7_Witness ==
    /\ pc = "Won"
    /\ step.from = <<1, 1>>
    /\ step.new_position = <<1, 0>>
    /\ player_position = exit

\* The destination of a step as the spec writes it: one cell north (y-1),
\* south (y+1), west (x-1) or east (x+1) of the position.
Destination(p, d) ==
    IF d = NORTH THEN <<p[1], p[2] - 1>>
    ELSE IF d = SOUTH THEN <<p[1], p[2] + 1>>
    ELSE IF d = WEST THEN <<p[1] - 1, p[2]>>
    ELSE <<p[1] + 1, p[2]>>

\* The coordinate lies in [0, width) x [0, height).
InsideGrid(c) == c[1] >= 0 /\ c[1] < width /\ c[2] >= 0 /\ c[2] < height

\* The last loop iteration of the session took a step and returned.
Stepped == pc \in {"Playing", "Won"} /\ step.direction # NoDirection

\* C8: take_step succeeds exactly when the destination is inside the grid
\* and a path tile; the returned position is the destination on success
\* and the position the step started from otherwise.
C8_StepResult ==
    Stepped =>
        LET dest == Destination(step.from, step.direction)
        IN  /\ step.was_success = (InsideGrid(dest) /\ grid[dest].path)
            /\ step.new_position = IF step.was_success THEN dest ELSE step.from

\* A successful step onto a path tile that was revealed before the step:
\* the player is back on the tile next to the entry.
C8_Witness ==
    /\ Stepped
    /\ step.was_success
    /\ turns >= 3
    /\ step.from # entry
    /\ step.new_position = <<width - 2, height - 2>>

\* C9: a step towards a wall or out of the grid leaves the player where
\* the step started, and a destination inside the grid is revealed after
\* the step.
C9_FailedStep ==
    Stepped =>
        LET dest == Destination(step.from, step.direction)
        IN  /\ (~InsideGrid(dest) \/ ~grid[dest].path) => player_position = step.from
            /\ InsideGrid(dest) => grid[dest].revealed

\* A step into a wall inside the grid: the wall is revealed and the
\* player has not moved.
C9_Witness ==
    /\ Stepped
    /\ ~step.was_success
    /\ InsideGrid(Destination(step.from, step.direction))
    /\ ~grid[Destination(step.from, step.direction)].path
    /\ grid[Destination(step.from, step.direction)].revealed
    /\ player_position = step.from

\* C10: a loop iteration whose step leads out of the grid raises no error,
\* returns failure and the current position, looks up no tile and changes
\* no tile.
C10_OutOfBounds ==
    [][(/\ pc = "Playing"
        /\ step'.direction # NoDirection
        /\ turns' # turns \/ pc' = "KeyError"
        /\ ~InsideGrid(Destination(player_position, step'.direction)))
       => /\ pc' = "Playing"
          /\ ~step'.was_success
          /\ step'.new_position = player_position
          /\ player_position' = player_position
          /\ looked' = {}
          /\ grid' = grid]_vars

\* The player has stepped south from the entry, out of the grid.
C10_Witness ==
    /\ pc = "Playing"
    /\ step.direction = SOUTH
    /\ step.from = entry
    /\ ~InsideGrid(Destination(step.from, step.direction))
    /\ ~step.was_success
    /\ looked = {}

\* A grid of the given size with every tile a shrouded, unvisited wall.
AllWalls(w, h) ==
    [c \in (0 .. w - 1) \X (0 .. h - 1) |->
        [path |-> FALSE, revealed |-> FALSE, visited |-> FALSE]]

\* The grid a run of the generator reaches from grid g with the frames st
\* when random.choice returns the indices ch, one after the other.
RECURSIVE Rerun(_, _, _, _, _)
Rerun(g, w, h, st, ch) ==
    IF ch = <<>> \/ st = <<>> THEN g
    ELSE LET c == st[Len(st)]
             unvisited == unvisited_neighbors(g, w, h, c)
         IN  IF unvisited = <<>>
             THEN Rerun(g, w, h, SubSeq(st, 1, Len(st) - 1), ch)
             ELSE IF Head(ch) > Len(unvisited) THEN g
             ELSE LET d == unvisited[Head(ch)]
                      next == next_tile_coords(c, d)
                  IN  Rerun(visit_enter(carve_hallway(g, hallway_coords(c, d)), next),
                            w, h, Append(st, next), Tail(ch))

\* A second run of the generator, on its own all-wall grid, with the same
\* width, height and choices.
SecondRun(w, h, ch) ==
    Rerun(visit_enter(AllWalls(w, h), <<1, 1>>), w, h, << <<1, 1>> >>, ch)

NormalizedFrom(n, d) ==
    /\ d = (IF n < 3 THEN 3 ELSE IF n % 2 = 0 THEN n + 1 ELSE n)
    /\ d % 2 = 1
    /\ d >= 3
    /\ d >= n
    /\ \A m \in 3 .. d - 1 : m >= n => m % 2 = 0
    /\ normalize(d) = d

\* C12: for every integer given as width, and independently as height, the
\* stored dimension is the normalisation the spec describes.
C12_Normalized ==
    pc = "Generating" =>
        /\ NormalizedFrom(args[1], width)
        /\ NormalizedFrom(args[2], height)

\* The constructor was called with an even width and a height below 3.
C12_Witness ==
    pc = "Generating" /\ args = <<8, -2>> /\ width = 9 /\ height = 3

\* The number of __visit calls made so far by the running constructor:
\* the top-level call and one call for each choice.
Visits == Len(choices) + 1

\* C13: for every width, height and sequence of choices the generation
\* terminates: no lookup raises, the visits never outnumber the lattice
\* cells, and every generation reaches the return of the top-level visit,
\* with every lattice cell visited and exactly as many visits as cells.
C13_Terminates ==
    /\ [](pc # "KeyError")
    /\ [](pc = "Generating" => Visits <= Cardinality(Lattice))
    /\ [](GenerationFinished =>
            VisitedTiles = Lattice /\ Visits = Cardinality(Lattice))
    /\ (pc = "Generating" ~> GenerationFinished)

\* The top-level visit of a 7x7 maze has returned after nine visits.
C13_Witness ==
    GenerationFinished /\ width = 7 /\ height = 7 /\ Visits = 9 /\ looked = {<<1, 3>>, <<3, 1>>}

\* C14: the session moves only along NotStarted -> Intro -> Playing -> Won
\* -> Intro or Playing of a new session, the construction of the maze lying
\* between the start of a session and its Intro or Playing: Won is entered
\* only from Playing, a failed step keeps the session in Playing, no other
\* state exists, and the only step taken in Won is the restart.
C14_SessionTransitions ==
    [][/\ pc' \in {"NotStarted", "Generating", "Intro", "Playing", "Won"}
       /\ pc = "NotStarted" => pc' = "Generating"
       /\ pc = "Generating" => pc' \in {"Generating", "Intro", "Playing"}
       /\ pc = "Intro" => pc' \in {"Intro", "Playing"}
       /\ pc = "Playing" => pc' \in {"Playing", "Won"}
       /\ pc = "Won" => pc' = "Generating" /\ turns' = 0 /\ step' = NoStep
       /\ (pc = "Playing" /\ step'.direction # NoDirection /\ ~step'.was_success)
             => pc' = "Playing"]_vars

\* A session started by the restart after a win is being played, and its
\* last step has failed.
C14_Witness ==
    /\ pc = "Playing"
    /\ ~intro
    /\ turns >= 2
    /\ step.direction # NoDirection
    /\ ~step.was_success

C16_PathImmutable ==
    [][(Constructed /\ SameSession) =>
          /\ DOMAIN grid' = DOMAIN grid
          /\ \A c \in DOMAIN grid : grid'[c].path = grid[c].path]_vars

\* A session in which a wall and a path tile were stepped on: the wall is
\* revealed and still a wall.
C16_Witness ==
    /\ pc = "Playing"
    /\ turns >= 2
    /\ player_position # entry
    /\ \E c \in RevealedTiles : ~grid[c].path

RepeatsFailedStep ==
    /\ pc = "Playing"
    /\ step.direction # NoDirection
    /\ ~step.was_success
    /\ pc' \in {"Playing", "Won"}
    /\ turns' = turns + 1
    /\ step'.direction = step.direction

\* C18: a failed step is idempotent: taking the same step again from the
\* state it left fails again and leaves the player position and every
\* tile's path and revealed flags as they were after the first attempt.
C18_FailedStepIdempotent ==
    [][RepeatsFailedStep =>
          /\ ~step'.was_success
          /\ player_position' = player_position
          /\ step'.new_position = player_position
          /\ DOMAIN grid' = DOMAIN grid
          /\ \A c \in DOMAIN grid :
                /\ grid'[c].path = grid[c].path
                /\ grid'[c].revealed = grid[c].revealed]_vars

\* The player has walked west into the wall beside the entry twice at
\* most: the wall is revealed and the player still stands on the entry.
C18_Witness ==
    /\ pc = "Playing"
    /\ turns = 2
    /\ step.direction = WEST
    /\ ~step.was_success
    /\ step.from = entry
    /\ player_position = entry
    /\ RevealedTiles = {entry, exit, <<width - 3, height - 1>>}

\* C19: during generation the number of simultaneously active __visit
\* frames never exceeds width * height / 4, whatever random.choice picks.
C19_DepthBound ==
    pc = "Generating" => 4 * Len(stack) <= width * height

\* The deepest recursion of a 7x7 maze: all nine lattice tiles are on the
\* stack at once.
C19_Witness ==
    /\ pc = "Generating"
    /\ width = 7
    /\ height = 7
    /\ Len(stack) = 9

\* The tile two steps from c in direction d.
Target(c, d) ==
    IF d = NORTH THEN <<c[1], c[2] - 2>>
    ELSE IF d = SOUTH THEN <<c[1], c[2] + 2>>
    ELSE IF d = WEST THEN <<c[1] - 2, c[2]>>
    ELSE <<c[1] + 2, c[2]>>

\* The directions the innermost frame, standing on c, treats as eligible:
\* the bounds test passes and the target is not yet visited.
Eligible(c) ==
    {d \in Directions :
        /\ has_neighbor(width, height, c, d)
        /\ Target(c, d) \in DOMAIN grid => ~grid[Target(c, d)].visited}

\* The generator is inside the loop of its innermost frame.
Visiting == pc = "Generating" /\ stack # <<>>

\* C20 as stated: every eligible neighbour of the current cell has
\* y-2 >= 0 (NORTH), y+2 <= height-3 (SOUTH), x-2 >= 0 (WEST) and
\* x+2 <= width-3 (EAST).
C20_SpecBounds ==
    Visiting =>
        \A d \in Eligible(stack[Len(stack)]) :
            LET t == Target(stack[Len(stack)], d)
            IN  /\ d = NORTH => t[2] >= 0
                /\ d = SOUTH => t[2] <= height - 3
                /\ d = WEST  => t[1] >= 0
                /\ d = EAST  => t[1] <= width - 3

\* C20, amended: every eligible neighbour of the current cell has
\* y-2 >= 0 (NORTH), y+2 <= height-2 (SOUTH), x-2 >= 0 (WEST) and
\* x+2 <= width-2 (EAST), so it lies inside the border of the grid.
C20_InteriorBounds ==
    Visiting =>
        \A d \in Eligible(stack[Len(stack)]) :
            LET t == Target(stack[Len(stack)], d)
            IN  /\ d = NORTH => t[2] >= 0
                /\ d = SOUTH => t[2] <= height - 2
                /\ d = WEST  => t[1] >= 0
                /\ d = EAST  => t[1] <= width - 2
                /\ t \in DOMAIN grid

\* The generator has taken the SOUTH neighbour of (1,1) in a 5x5 maze: the
\* innermost frame stands on y + 2 = height - 2 and still has an eligible
\* EAST neighbour at x + 2 = width - 2.
C20_Witness ==
    /\ Visiting
    /\ width = 5
    /\ height = 5
    /\ stack = <<(<<1, 1>>), (<<1, 3>>)>>
    /\ EAST \in Eligible(<<1, 3>>)

\* The transition is a call of __visit from the innermost frame.
VisitCalled ==
    /\ Visiting
    /\ pc' = "Generating"
    /\ Len(stack') = Len(stack) + 1

\* C21: each lattice cell is carved into from exactly one direction:
\* __visit is called only on a cell that is unvisited at that moment, the
\* call carves exactly the hallway tile between the current cell and that
\* neighbour and the neighbour itself, nothing else carves during
\* generation, and so the carved hallways are one fewer than the visited
\* cells, each visited cell other than (1,1) touching at least one.
C21_CarvedOnce ==
    /\ [][VisitCalled =>
            LET c == stack[Len(stack)]
                n == stack'[Len(stack')]
            IN  /\ \E d \in Directions : n = Target(c, d)
                /\ n \in DOMAIN grid
                /\ ~grid[n].visited
                /\ VisitedTiles' = VisitedTiles \cup {n}
                /\ \E m \in HallwayTiles :
                      /\ Orthogonal(c, m) /\ Orthogonal(m, n)
                      /\ ~grid[m].path
                      /\ PathTiles' = PathTiles \cup {m, n}]_vars
    /\ [][(Visiting /\ ~VisitCalled /\ pc' = "Generating") =>
            PathTiles' = PathTiles /\ VisitedTiles' = VisitedTiles]_vars
    /\ [](pc = "Generating" =>
            /\ Cardinality(PathTiles \cap HallwayTiles) = Cardinality(VisitedTiles) - 1
            /\ \A c \in VisitedTiles \ {<<1, 1>>} :
                  \E m \in PathTiles \cap HallwayTiles : Orthogonal(c, m))

\* A generation that has backtracked and branched: four cells entered,
\* three hallways carved, fewer frames active than cells visited.
C21_Witness ==
    /\ Visiting
    /\ Cardinality(VisitedTiles) >= 4
    /\ Cardinality(PathTiles \cap HallwayTiles) = Cardinality(VisitedTiles) - 1
    /\ Len(stack) < Cardinality(VisitedTiles)
    /\ unvisited_neighbors(grid, width, height, stack[Len(stack)]) # <<>>

\* The lattice cells two tiles north, south, west or east of c.
LatticeNeighbors(c) == {n \in Lattice : \E d \in Directions : n = Target(c, d)}

\* The cells of the active __visit frames.
ActiveCells == {stack[i] : i \in 1 .. Len(stack)}

\* The transition is the return of the innermost __visit frame.
VisitReturned ==
    /\ Visiting
    /\ pc' = "Generating"
    /\ Len(stack') < Len(stack)

\* The innermost frame has had a call of __visit return to it: a cell it
\* carved into is visited and no longer active.
Resumed ==
    /\ Visiting
    /\ \E n \in LatticeNeighbors(stack[Len(stack)]) \ ActiveCells :
          Joined(stack[Len(stack)], n) /\ grid[n].visited

\* C22: a __visit frame for cell c returns only when every in-range
\* lattice neighbour of c is visited; the return unwinds exactly one level
\* and changes no tile; and a frame that a call has returned to chooses
\* its next neighbour among those unvisited in the current grid, so that
\* cells visited beneath the returned call are not entered again.
C22_Backtracking ==
    /\ [][VisitReturned =>
            /\ \A n \in LatticeNeighbors(stack[Len(stack)]) : grid[n].visited
            /\ stack' = SubSeq(stack, 1, Len(stack) - 1)
            /\ grid' = grid]_vars
    /\ [][(Resumed /\ VisitCalled) =>
            /\ stack'[Len(stack')] \in LatticeNeighbors(stack[Len(stack)])
            /\ ~grid[stack'[Len(stack')]].visited
            /\ SubSeq(stack', 1, Len(stack)) = stack]_vars

\* The frame at (3,3) of a maze seven wide has had the call on its dead-end
\* western neighbour return and still has an unvisited neighbour to choose.
C22_Witness ==
    /\ Resumed
    /\ width = 7
    /\ stack[Len(stack)] = <<3, 3>>
    /\ grid[<<1, 3>>].visited
    /\ <<1, 3>> \notin ActiveCells
    /\ \E n \in LatticeNeighbors(<<3, 3>>) : ~grid[n].visited

\* The coordinate is a key of the grid holding a revealed path tile.
RevealedPath(c) == c \in DOMAIN grid /\ grid[c].path /\ grid[c].revealed

\* C23: in every state of a session the player stands on a tile inside
\* the grid that is a revealed path tile, so the destination of every step
\* taken is orthogonally adjacent to a revealed path tile, the one the
\* step started from.
C23_OnRevealedPath ==
    Constructed =>
        /\ InsideGrid(player_position)
        /\ RevealedPath(player_position)
        /\ step.direction # NoDirection =>
              /\ RevealedPath(step.from)
              /\ Orthogonal(step.from, Destination(step.from, step.direction))
              /\ player_position \in
                    {step.from, Destination(step.from, step.direction)}

\* The player has walked from the entry into the maze, turned a corner and
\* just been turned back by a wall.
C23_Witness ==
    /\ pc = "Playing"
    /\ turns >= 3
    /\ ~step.was_success
    /\ step.direction # NoDirection
    /\ player_position[2] < height - 2
    /\ player_position[1] < width - 2
    /\ InsideGrid(Destination(step.from, step.direction))

\* The transition is a loop iteration that takes a step and returns.
StepTaken ==
    /\ pc = "Playing"
    /\ pc' \in {"Playing", "Won"}
    /\ turns' = turns + 1
    /\ step'.direction # NoDirection

\* C24: a single step changes at most one tile attribute in the grid, the
\* revealed flag of the destination when it is inside the grid, which is
\* set; all other revealed flags, all path and visited flags, the keys of
\* the grid, and the width, height, entry and exit of the maze are
\* unchanged, and the new player position is the one the step returned.
C24_StepFrame ==
    [][StepTaken =>
          LET dest == Destination(player_position, step'.direction)
          IN  /\ DOMAIN grid' = DOMAIN grid
              /\ \A c \in DOMAIN grid :
                    /\ grid'[c].path = grid[c].path
                    /\ grid'[c].visited = grid[c].visited
                    /\ c # dest => grid'[c].revealed = grid[c].revealed
              /\ InsideGrid(dest) => grid'[dest].revealed
              /\ <<width, height, entry, exit>>' = <<width, height, entry, exit>>
              /\ step'.from = player_position
              /\ player_position' = step'.new_position]_vars

\* The second step of a session has moved the player north onto a tile
\* that was shrouded before: four tiles are revealed.
C24_Witness ==
    /\ pc = "Playing"
    /\ turns = 2
    /\ step.direction = NORTH
    /\ step.was_success
    /\ player_position = <<width - 2, height - 3>>
    /\ Cardinality(RevealedTiles) = 4

\* C25: no grid lookup uses a coordinate outside [0,width) x [0,height):
\* no KeyError is raised by the generator or by a step, every key the last
\* operation used is a key of the grid, and a step looks up its
\* destination exactly when the destination is inside the grid.
C25_NoKeyError ==
    /\ pc # "KeyError"
    /\ looked \subseteq DOMAIN grid
    /\ \A c \in looked : InsideGrid(c)
    /\ Stepped =>
          looked = IF InsideGrid(Destination(step.from, step.direction))
                   THEN {Destination(step.from, step.direction)}
                   ELSE {}

\* The player has walked to the cell (1,1) and stepped west: the lookup of
\* the boundary tile (0,1) is the nearest a step comes to the edge.
C25_Witness ==
    /\ pc = "Playing"
    /\ step.direction = WEST
    /\ step.from = <<1, 1>>
    /\ looked = {<<0, 1>>}
    /\ grid[<<0, 1>>].revealed

\* A walk outwards from the tiles of front, which are k steps from its
\* start, over the orthogonally adjacent tiles of rest, until b is met:
\* the number of steps to b and the tiles one step fewer away, or -1 if b
\* is never met.
RECURSIVE Hops(_, _, _, _, _)
Hops(front, before, rest, b, k) ==
    IF b \in front THEN [dist |-> k, before |-> before]
    ELSE IF front = {} THEN [dist |-> -1, before |-> {}]
    ELSE LET next == {n \in rest : \E m \in front : Orthogonal(m, n)}
         IN  Hops(next, front, rest \ next, b, k + 1)

\* The shortest walk over path tiles from a to b: its length, and the
\* tiles of the last front before b, one step nearer to a than b is.
PathWalk(a, b) ==
    IF a \in PathTiles
    THEN Hops({a}, {}, PathTiles \ {a}, b, 0)
    ELSE [dist |-> -1, before |-> {}]

\* The length of the shortest walk over path tiles from a to b, or -1.
PathDistance(a, b) == PathWalk(a, b).dist

\* C26: the game is always winnable: in every Playing state the exit is
\* reachable from the player position over orthogonally adjacent path
\* tiles, and some direction input makes a successful step that brings the
\* player one tile nearer to the exit, so a finite sequence of inputs
\* leads to Won; this holds for every maze, the 3x3 maze included.
C26_Winnable ==
    pc = "Playing" =>
        LET walk == PathWalk(exit, player_position)
        IN  /\ walk.dist >= 1
            /\ \E d \in Directions :
                  LET r == take_step(grid, width, height, player_position, d)
                  IN  /\ ~r.raised
                      /\ r.is_success
                      /\ r.next_position \in walk.before

\* The player has left the entry of a 5x5 maze and stands in the middle of
\* the route, several tiles from the exit.
C26_Witness ==
    /\ pc = "Playing"
    /\ width = 5
    /\ height = 5
    /\ turns >= 2
    /\ player_position # entry
    /\ PathDistance(player_position, exit) = 4

\* C27: while a session is Playing the player is never on column 0 or
\* width-1, never on row 0, and on row height-1 only at the entry; so a
\* step north, west or east always has its destination inside the grid,
\* and the only step out of the grid ever taken is SOUTH from the entry.
C27_AwayFromEdge ==
    /\ pc = "Playing" =>
          /\ player_position[1] \in 1 .. width - 2
          /\ player_position[2] \in 1 .. height - 1
          /\ player_position[2] = height - 1 => player_position = entry
          /\ \A d \in {NORTH, WEST, EAST} :
                InsideGrid(Destination(player_position, d))
    /\ (Stepped /\ ~InsideGrid(Destination(step.from, step.direction))) =>
          /\ step.direction = SOUTH
          /\ step.from = entry

\* The player went into the maze, came back to the entry and stepped
\* south out of the grid.
C27_Witness ==
    /\ pc = "Playing"
    /\ turns >= 3
    /\ step.direction = SOUTH
    /\ step.from = entry
    /\ player_position = entry
    /\ ~InsideGrid(Destination(step.from, step.direction))
    /\ grid[<<width - 2, height - 2>>].revealed

\* The number of lattice cells of a maze of the current width and height.
LatticeSize == ((width - 1) \div 2) * ((height - 1) \div 2)

\* C28: during and after generation no tile with both coordinates even is
\* a path tile, every carved hallway (a path tile that is neither a
\* visited cell nor entry or exit) has exactly one odd and one even
\* coordinate, and the finished maze of N lattice cells has exactly
\* 2N + 1 path tiles.
C28_Parity ==
    /\ pc \in {"Generating", "Intro", "Playing", "Won"} =>
          /\ \A c \in PathTiles : ~(c[1] % 2 = 0 /\ c[2] % 2 = 0)
          /\ \A c \in PathTiles \ (VisitedTiles \cup {entry, exit}) :
                (c[1] % 2) + (c[2] % 2) = 1
          /\ \A c \in VisitedTiles : c[1] % 2 = 1 /\ c[2] % 2 = 1
    /\ Constructed =>
          /\ Cardinality(PathTiles) = 2 * LatticeSize + 1
          /\ Cardinality(VisitedTiles) = LatticeSize
          /\ Cardinality(PathTiles \ (VisitedTiles \cup {entry, exit})) = LatticeSize - 1

\* A finished maze seven wide and five high: six cells, five hallways,
\* entry and exit, thirteen path tiles.
C28_Witness ==
    /\ Constructed
    /\ width = 7
    /\ height = 5
    /\ LatticeSize = 6
    /\ Cardinality(PathTiles) = 13

\* C29: in every state of a session every revealed tile is the entry, the
\* exit, or orthogonally adjacent to a path tile the player has occupied
\* in this session: nothing farther than one step from where the player
\* has been is revealed.
C29_RevealedNearOccupied ==
    Constructed =>
        /\ occupied \subseteq PathTiles
        /\ player_position \in occupied
        /\ \A c \in RevealedTiles :
              \/ c \in {entry, exit}
              \/ \E p \in occupied : Orthogonal(c, p)

\* The player has occupied three tiles or more and revealed walls beside
\* the route as well as the tiles of the route.
C29_Witness ==
    /\ pc = "Playing"
    /\ Cardinality(occupied) >= 3
    /\ \E c \in RevealedTiles : ~grid[c].path
    /\ Cardinality(RevealedTiles) >= 6

\* The inputs of getch() the key chain maps to a direction.
ArrowKeys == {"KEY_RIGHT", "KEY_LEFT", "KEY_UP", "KEY_DOWN"}

\* The transition is a loop iteration with no input or with a key that is
\* not an arrow key.
IdleIteration == \E char \in Keys \ ArrowKeys : game_loop(char)

\* C30: a loop iteration with no input or with a key other than the four
\* arrow keys performs no step: the player position and the path and
\* revealed flags of every tile are unchanged, no tile is looked up, and
\* the session state changes only if the position already is the exit.
C30_IdleIteration ==
    [][IdleIteration =>
          /\ step'.direction = NoDirection
          /\ player_position' = player_position
          /\ DOMAIN grid' = DOMAIN grid
          /\ \A c \in DOMAIN grid :
                /\ grid'[c].path = grid[c].path
                /\ grid'[c].revealed = grid[c].revealed
          /\ looked' = {}
          /\ pc' # pc => player_position = exit]_vars

\* The player has walked into the maze and the last loop iteration, the
\* third or a later one, ran without an arrow key.
C30_Witness ==
    /\ pc = "Playing"
    /\ turns >= 3
    /\ step.direction = NoDirection
    /\ step.from = player_position
    /\ player_position # entry
    /\ Cardinality(occupied) >= 2

====
